---- MODULE Spec2Model ----
(***************************************************************************)
(* Conway's Game of Life on a sparse grid (src/src/lib.rs).                *)
(*                                                                         *)
(* A Grid is a map from alive Points to the generation they were born in,  *)
(* plus the current generation.  The model keeps the grid's two fields,    *)
(* whether a call has panicked, and a record of the last call made on the  *)
(* grid together with the grid as it was before that call.                 *)
(*                                                                         *)
(* i64 and u64 are modelled at a reduced width (CoordBits, GenBits): the   *)
(* arithmetic is the machine's, two's complement for i64, modulo           *)
(* 2^GenBits for u64.  Where an operation overflows, the model takes both  *)
(* outcomes a build can produce: the panic of a build that checks          *)
(* overflow, and the wrapped value of one that does not.                   *)
(*                                                                         *)
(* Spec and SpecEdge take tick as one step.  SpecSteps takes it one loop   *)
(* round at a time, SpecTwin ticks two grids built from the same points,   *)
(* SpecNeighbors applies neighbors to single points, and SpecRender is one *)
(* render pass of the display (src/src/main.rs) over its view.             *)
(***************************************************************************)
EXTENDS Integers, Sequences, FiniteSets

\* ---------------------------------------------------------------- bounds

\* Width in bits of a coordinate (stands for the 64 of i64).
CoordBits == 7

\* Width in bits of a generation counter (stands for the 64 of u64).
GenBits == 4

\* tick is not called once the generation has reached MaxGen.
MaxGen == 2

\* Number of points the caller may seed a grid with: the first MaxSeed
\* points of SeedOrder.
MaxSeed == 5

\* Number of points the caller adds, removes and queries: the first MaxEdit
\* points of SeedOrder.
MaxEdit == 2

\* neighbors is applied to the points with coordinates in
\* -NeighborSpan..NeighborSpan.
NeighborSpan == 4

\* The window of the display is 0, 5, ... 5 * MaxWindow pixels wide and
\* high.
MaxWindow == 4

\* The view of the display is not dragged further than MaxShift points
\* from the origin.
MaxShift == 1

\* tick is not called on a grid with more than MaxAlive cells.
MaxAlive == 5

\* ------------------------------------------------------------ Point, i64

I64_MIN == -(2 ^ (CoordBits - 1))
I64_MAX == 2 ^ (CoordBits - 1) - 1
U64_MAX == 2 ^ GenBits - 1

\* Two's complement wrap of a mathematical integer into i64: a value in
\* range is itself, one out of range is taken modulo 2^CoordBits.
wrap_i64(n) ==
    IF n >= I64_MIN /\ n <= I64_MAX THEN n
    ELSE ((n - I64_MIN) % (2 ^ CoordBits)) + I64_MIN

\* Wrap of a mathematical integer into u64.
wrap_u64(n) == n % (2 ^ GenBits)

\* True when n is not representable in i64: the sum that produced it
\* overflowed.
i64_overflows(n) == n < I64_MIN \/ n > I64_MAX

Point(x, y) == [x |-> x, y |-> y]

\* impl Add for Point: component-wise, wrapping when the build does not
\* check overflow.
PointAdd(self, other) ==
    Point(wrap_i64(self.x + other.x), wrap_i64(self.y + other.y))

\* The additions of PointAdd that overflow (a panic when the build checks).
PointAddOverflows(self, other) ==
    i64_overflows(self.x + other.x) \/ i64_overflows(self.y + other.y)

\* impl Sub for Point.
PointSub(self, other) ==
    Point(wrap_i64(self.x - other.x), wrap_i64(self.y - other.y))

\* A subtraction of impl Sub overflows.
PointSubOverflows(self, other) ==
    i64_overflows(self.x - other.x) \/ i64_overflows(self.y - other.y)

NEIGHBORHOOD_OFFSETS ==
    << Point(-1, 1), Point(0, 1), Point(1, 1),
       Point(-1, 0),              Point(1, 0),
       Point(-1, -1), Point(0, -1), Point(1, -1) >>

\* neighbors as it would be with the offsets subtracted from the point.
neighbors_subtracted(point) ==
    [i \in 1..8 |-> PointSub(point, NEIGHBORHOOD_OFFSETS[i])]

\* fn neighbors: the offsets added to the point, in the offsets' order.
neighbors(point) ==
    [i \in 1..Len(NEIGHBORHOOD_OFFSETS) |->
        PointAdd(point, NEIGHBORHOOD_OFFSETS[i])]

\* neighbors(point) overflows in one of its additions.
neighbors_overflows(point) ==
    \E i \in 1..Len(NEIGHBORHOOD_OFFSETS) :
        PointAddOverflows(point, NEIGHBORHOOD_OFFSETS[i])

\* ------------------------------------------------------------ hash maps

EmptyMap == << >>

\* HashMap::insert: the value of an existing key is replaced.
MapInsert(m, k, v) ==
    [q \in (DOMAIN m) \cup {k} |-> IF q = k THEN v ELSE m[q]]

\* HashMap::remove.
MapRemove(m, k) == [q \in (DOMAIN m) \ {k} |-> m[q]]

\* Position of a point in row-major order, used to write down orders.
Rank(p) == (p.y - I64_MIN) * (2 ^ CoordBits) + (p.x - I64_MIN)

RECURSIVE Ascending(_)
Ascending(S) ==
    IF S = {} THEN << >>
    ELSE LET p == CHOOSE q \in S : \A r \in S : Rank(q) <= Rank(r)
         IN  <<p>> \o Ascending(S \ {p})

Reverse(s) == [i \in 1..Len(s) |-> s[Len(s) + 1 - i]]

\* The points a sequence holds.
Elements(seq) == {seq[i] : i \in DOMAIN seq}

RECURSIVE Permutations(_)
Permutations(S) ==
    IF S = {} THEN {<< >>}
    ELSE UNION {{<<x>> \o s : s \in Permutations(S \ {x})} : x \in S}

\* The orders in which iterating the keys of map m may yield them: the
\* order of a HashMap is unspecified, and every order is one it takes.
IterOrders(m) == Permutations(DOMAIN m)

\* ----------------------------------------------------------------- Grid

\* Option<u64>.
None == << >>
Some(v) == <<v>>

\* Grid { cells, generation }.
Grid(cs, gen) == [cells |-> cs, generation |-> gen]

\* Grid::empty.
empty == Grid(EmptyMap, 0)

\* with_points as it would be if its loop stopped one point early.
RECURSIVE with_points_cells_drop_last(_, _)
with_points_cells_drop_last(points, acc) ==
    IF Len(points) <= 1 THEN acc
    ELSE with_points_cells_drop_last(Tail(points),
                                     MapInsert(acc, Head(points), 0))

\* Grid::with_points: every point of the iterator is inserted with birth
\* generation 0.
RECURSIVE with_points_cells(_, _)
with_points_cells(points, acc) ==
    IF points = << >> THEN acc
    ELSE with_points_cells(Tail(points), MapInsert(acc, Head(points), 0))

with_points(points) == Grid(with_points_cells(points, EmptyMap), 0)

\* add_point as it would be with insert in place of entry().or_insert():
\* the birth generation of an alive point is replaced.
add_point_overwrite(cs, gen, point) == MapInsert(cs, point, gen)

\* add_point as it would be if it stamped the generation to come.
add_point_stamp_next(cs, gen, point) ==
    IF point \in DOMAIN cs THEN cs ELSE MapInsert(cs, point, gen + 1)

\* add_point as it would be if it stamped 0, as with_points does.
add_point_stamp_zero(cs, gen, point) ==
    IF point \in DOMAIN cs THEN cs ELSE MapInsert(cs, point, 0)

\* Grid::add_point: cells.entry(point).or_insert(generation).
add_point(cs, gen, point) ==
    IF point \in DOMAIN cs THEN cs ELSE MapInsert(cs, point, gen)

\* remove_point as it would be with retain and the test the wrong way
\* round: every other point is removed.
remove_point_all_others(cs, point) ==
    [q \in (DOMAIN cs) \cap {point} |-> cs[q]]

\* remove_point as it would be if the removal were left out.
remove_point_nothing(cs, point) == cs

\* Grid::remove_point.
remove_point(cs, point) == MapRemove(cs, point)

\* age_of_point as it would be with the operands of the subtraction
\* exchanged.
age_of_point_reversed(cs, gen, point) ==
    IF point \in DOMAIN cs THEN Some(wrap_u64(cs[point] - gen)) ELSE None

\* Grid::age_of_point: generation - birth for an alive point, wrapping
\* when the build does not check overflow.
age_of_point(cs, gen, point) ==
    IF point \in DOMAIN cs THEN Some(wrap_u64(gen - cs[point])) ELSE None

\* The subtraction of age_of_point underflows.
age_of_point_overflows(cs, gen, point) ==
    point \in DOMAIN cs /\ cs[point] > gen

\* Integer division of i64: truncation toward zero.
i64_div(a, b) == IF a >= 0 THEN a \div b ELSE -((-a) \div b)

\* The number of points random would draw if the division rounded up.
desired_count_rounded_up(top_left, bottom_right) ==
    LET width == wrap_i64(bottom_right.x - top_left.x)
        height == wrap_i64(bottom_right.y - top_left.y)
    IN  i64_div(wrap_i64(wrap_i64(wrap_i64(width * height) * 8) + 9), 10)

\* Grid::random: the number of points it draws, in i64 arithmetic.
desired_count(top_left, bottom_right) ==
    LET width == wrap_i64(bottom_right.x - top_left.x)
        height == wrap_i64(bottom_right.y - top_left.y)
    IN  i64_div(wrap_i64(wrap_i64(width * height) * 8), 10)

\* Grid::random: a subtraction or a multiplication of desired_count
\* overflows.
desired_count_overflows(top_left, bottom_right) ==
    LET width == bottom_right.x - top_left.x
        height == bottom_right.y - top_left.y
    IN  \/ i64_overflows(width)
        \/ i64_overflows(height)
        \/ i64_overflows(wrap_i64(width) * wrap_i64(height))
        \/ i64_overflows(wrap_i64(wrap_i64(width) * wrap_i64(height)) * 8)

\* Grid::random: Range::new(low, high) panics unless low < high.
random_panics(top_left, bottom_right) ==
    top_left.x >= bottom_right.x \/ top_left.y >= bottom_right.y

\* Grid::random: the points drawn are added to an empty grid one by one.
RECURSIVE random_cells(_, _)
random_cells(samples, acc) ==
    IF samples = << >> THEN acc
    ELSE random_cells(Tail(samples), add_point(acc, 0, Head(samples)))

random(samples) == Grid(random_cells(samples, EmptyMap), 0)

\* Grid::count_neighbors: the neighbours of the point that are keys of the
\* map, counted one by one.
count_neighbors(cs, point) ==
    LET ns == neighbors(point)
    IN  Cardinality({i \in 1..Len(ns) : ns[i] \in DOMAIN cs})

\* dead_candidates' flat_map as it would be without the filter.
all_neighbors(cs, cell) == neighbors(cell)

\* The neighbours of one alive cell that are not alive, in neighbour order.
dead_neighbors(cs, cell) ==
    SelectSeq(neighbors(cell), LAMBDA c : c \notin DOMAIN cs)

\* Grid::dead_candidates: the dead neighbours of every alive cell, in the
\* map's iteration order, repetitions kept.
RECURSIVE dead_candidates(_, _)
dead_candidates(cs, order) ==
    IF order = << >> THEN << >>
    ELSE dead_neighbors(cs, Head(order)) \o dead_candidates(cs, Tail(order))

\* The survival test as it would be with <= 4 in place of < 4.
survives_upto_four(count) == count > 1 /\ count <= 4

\* The survival test of tick.
survives(count) == count > 1 /\ count < 4

\* The birth test as it would be with >= 3 in place of == 3.
is_born_three_or_more(count) == count >= 3

\* The birth test of tick.
is_born(count) == count = 3

\* A survivor stored with the current generation in place of its own.
survivor_stamp_reset(cs, gen, cell) == gen

\* The birth generation a surviving cell is stored with.
survivor_stamp(cs, gen, cell) == cs[cell]

\* A newly born cell stored with the generation before the increment.
birth_stamp_before_increment(gen) == gen - 1

\* The birth generation a newly born cell is stored with: the generation
\* after the increment.
birth_stamp(gen) == gen

\* The first loop as it would be if it worked on self.cells in place: a
\* cell that does not survive is gone when the cells after it are counted.
RECURSIVE survival_pass_in_place(_, _, _, _)
survival_pass_in_place(cs, gen, order, next_generation) ==
    IF order = << >> THEN cs
    ELSE LET cell == Head(order)
             count == count_neighbors(cs, cell)
         IN  survival_pass_in_place(
                 IF survives(count) THEN cs ELSE MapRemove(cs, cell),
                 gen, Tail(order), next_generation)

\* tick, first loop: the alive cells with 2 or 3 neighbours are inserted
\* into the next generation with their birth generation.
RECURSIVE survival_pass(_, _, _, _)
survival_pass(cs, gen, order, next_generation) ==
    IF order = << >> THEN next_generation
    ELSE LET cell == Head(order)
             count == count_neighbors(cs, cell)
         IN  survival_pass(cs, gen, Tail(order),
                 IF survives(count)
                 THEN MapInsert(next_generation, cell,
                                survivor_stamp(cs, gen, cell))
                 ELSE next_generation)

\* The second loop as it would be if it took the number of times a
\* candidate is listed for its number of alive neighbours.
birth_pass_by_occurrences(cs, gen, candidates, next_generation) ==
    LET born == {candidates[i] : i \in
                    {k \in DOMAIN candidates :
                        Cardinality({m \in DOMAIN candidates :
                                        candidates[m] = candidates[k]}) = 3}}
    IN  [p \in (DOMAIN next_generation) \cup born |->
            IF p \in born THEN birth_stamp(gen) ELSE next_generation[p]]

\* tick, second loop: the dead candidates with 3 neighbours are inserted
\* into the next generation with the new generation.
RECURSIVE birth_pass(_, _, _, _)
birth_pass(cs, gen, candidates, next_generation) ==
    IF candidates = << >> THEN next_generation
    ELSE LET cell == Head(candidates)
             count == count_neighbors(cs, cell)
         IN  birth_pass(cs, gen, Tail(candidates),
                 IF is_born(count)
                 THEN MapInsert(next_generation, cell, birth_stamp(gen))
                 ELSE next_generation)

\* tick as it would be without the increment.
next_gen_same(gen) == gen

\* The generation after tick's increment.
next_gen(gen) == wrap_u64(gen + 1)

\* The map tick stores: gen is the generation after the increment, order
\* the order in which the map yields its keys, candidates the list
\* dead_candidates returned.
tick_cells(cs, gen, order, candidates) ==
    birth_pass(cs, gen, candidates, survival_pass(cs, gen, order, EmptyMap))

\* A coordinate addition of tick overflows: in the neighbours of an alive
\* cell, or in the neighbours of a dead candidate.
tick_overflows(cs, candidates) ==
    \/ \E cell \in DOMAIN cs : neighbors_overflows(cell)
    \/ \E i \in 1..Len(candidates) : neighbors_overflows(candidates[i])

\* -------------------------------------------------------- state machine

VARIABLES
    cells,            \* Grid.cells: alive Point -> birth generation
    generation,       \* Grid.generation
    panic,            \* "none", or the call that panicked
    call,             \* the last call on the grid: op, arg, ret
    before,           \* the grid as it was when that call was made
    ticks,            \* number of tick calls that have returned
    added,            \* Point -> ticks it has lived through since add_point
                      \* made it alive
    work,             \* a tick taken step by step: where it is, the keys
                      \* and candidates it has yet to visit, and its
                      \* next_generation
    twin,             \* a second Grid
    iter              \* the App of the display: its view, its mouse_down,
                      \* and the ViewIterator of its render pass with the
                      \* points it has yielded and the squares drawn

vars ==
    <<cells, generation, panic, call, before, ticks, added, work, twin, iter>>

\* No tick is under way.
Idle == [pc |-> "idle"]

\* There is no second grid.
NoTwin == [cells |-> EmptyMap, generation |-> 0, absent |-> TRUE]

\* There is no App.
NoView == [pc |-> "none"]

\* A grid on its own, between calls.
Alone ==
    /\ work = Idle
    /\ twin = NoTwin
    /\ iter = NoView

Call(op, arg, ret) == [op |-> op, arg |-> arg, ret |-> ret]

\* The points the caller uses, the middle of a three by three block first.
SeedOrder ==
    << Point(1, 1), Point(1, 0), Point(0, 0), Point(2, 0), Point(0, 1),
       Point(2, 1), Point(1, 2), Point(0, 2), Point(2, 2) >>

SeedPoints == {SeedOrder[i] : i \in 1..MaxSeed}

EditPoints == {SeedOrder[i] : i \in 1..MaxEdit}

\* The point sequences handed to with_points: each set of seed points in
\* ascending order, once as it is and once followed by itself reversed, so
\* that every point is given twice.
SeedInputs ==
    UNION {{Ascending(S), Ascending(S) \o Reverse(Ascending(S))} :
              S \in SUBSET SeedPoints}

\* Points at the ends of the i64 range, the corner first.
EdgeOrder ==
    << Point(I64_MAX, 0), Point(I64_MAX - 1, 0), Point(I64_MAX, 1),
       Point(I64_MIN, 0), Point(0, I64_MAX), Point(0, I64_MIN),
       Point(I64_MAX - 1, 1), Point(I64_MIN, 1), Point(I64_MAX, I64_MAX) >>

EdgeInputs ==
    {Ascending(S) : S \in SUBSET {EdgeOrder[i] : i \in 1..MaxSeed}}

\* The rectangles handed to random: top left, bottom right.
RandomViews ==
    {<<Point(0, 0), Point(2, 2)>>, <<Point(0, 0), Point(3, 1)>>,
     <<Point(1, 0), Point(1, 2)>>, <<Point(0, 0), Point(I64_MAX, 1)>>,
     <<Point(I64_MIN, 0), Point(I64_MAX, 1)>>}

\* The points Range::new(low, high) can yield on each axis: low <= v < high.
RangePoints(top_left, bottom_right) ==
    {Point(x, y) : x \in top_left.x..(bottom_right.x - 1),
                   y \in top_left.y..(bottom_right.y - 1)}

Constructed(g, c) ==
    /\ cells = g.cells
    /\ generation = g.generation
    /\ call = c
    /\ before = g
    /\ panic = "none"
    /\ ticks = 0
    /\ added = EmptyMap

InitEmpty == Constructed(empty, Call("empty", << >>, None))

InitWithPoints ==
    \E points \in SeedInputs :
        Constructed(with_points(points), Call("with_points", points, None))

\* No grid: the constructor has panicked.
Panicked(c) ==
    /\ cells = EmptyMap
    /\ generation = 0
    /\ call = c
    /\ before = empty
    /\ panic = "random"
    /\ ticks = 0
    /\ added = EmptyMap

\* Grid::random over a rectangle.  No grid is returned when Range::new
\* panics, or when desired_count overflows in a build that checks overflow;
\* in a build that does not, the wrapped number of points is drawn.
Random(view) ==
    IF random_panics(view[1], view[2])
    THEN Panicked(Call("random", view, None))
    ELSE \/ /\ desired_count_overflows(view[1], view[2]) = TRUE
            /\ Panicked(Call("random", view, None))
         \/ \E samples \in [1..desired_count(view[1], view[2]) ->
                                 RangePoints(view[1], view[2])] :
                Constructed(random(samples), Call("random", view, None))

InitRandom == \E view \in RandomViews : Random(view)

Init ==
    /\ InitEmpty \/ InitWithPoints \/ InitRandom
    /\ Alone

\* Grids built from points at the ends of the coordinate range.
InitEdge ==
    /\ \E points \in EdgeInputs :
          Constructed(with_points(points), Call("with_points", points, None))
    /\ Alone

\* The cells add_point made alive that are alive in next_cells, one tick
\* older.
added_after_tick(next_cells) ==
    [p \in (DOMAIN added) \cap (DOMAIN next_cells) |-> added[p] + 1]

\* Grid::tick.  The increment comes first; a panic in a later addition
\* leaves the incremented generation and the old cells behind.  An integer
\* overflow panics or wraps, as the build was made.
Tick ==
    /\ panic = "none"
    /\ generation < MaxGen
    /\ Cardinality(DOMAIN cells) <= MaxAlive
    /\ UNCHANGED <<work, twin, iter>>
    /\ call' = Call("tick", << >>, None)
    /\ before' = Grid(cells, generation)
    /\ \/ /\ generation = U64_MAX
          /\ panic' = "tick"
          /\ UNCHANGED <<cells, generation, ticks, added>>
       \/ \E order \in IterOrders(cells) :
            LET candidates == dead_candidates(cells, order)
            IN  /\ generation' = next_gen(generation)
                /\ \/ /\ tick_overflows(cells, candidates) = TRUE
                      /\ panic' = "tick"
                      /\ UNCHANGED <<cells, ticks, added>>
                   \/ /\ cells' = tick_cells(cells, next_gen(generation),
                                             order, candidates)
                      /\ ticks' = ticks + 1
                      /\ added' = added_after_tick(cells')
                      /\ UNCHANGED panic

\* Grid::add_point.
AddPoint(point) ==
    /\ panic = "none"
    /\ cells' = add_point(cells, generation, point)
    /\ call' = Call("add_point", point, None)
    /\ before' = Grid(cells, generation)
    /\ added' = IF point \in DOMAIN cells THEN added
                ELSE MapInsert(added, point, 0)
    /\ UNCHANGED <<generation, panic, ticks, work, twin, iter>>

\* Grid::remove_point.
RemovePoint(point) ==
    /\ panic = "none"
    /\ cells' = remove_point(cells, point)
    /\ call' = Call("remove_point", point, None)
    /\ before' = Grid(cells, generation)
    /\ added' = MapRemove(added, point)
    /\ UNCHANGED <<generation, panic, ticks, work, twin, iter>>

\* Grid::age_of_point.  An underflow of the subtraction panics or wraps, as
\* the build was made.
AgeOfPoint(point) ==
    /\ panic = "none"
    /\ before' = Grid(cells, generation)
    /\ UNCHANGED <<cells, generation, ticks, added, work, twin, iter>>
    /\ \/ /\ age_of_point_overflows(cells, generation, point) = TRUE
          /\ panic' = "age_of_point"
          /\ call' = Call("age_of_point", point, None)
       \/ /\ call' = Call("age_of_point", point,
                          age_of_point(cells, generation, point))
          /\ UNCHANGED panic

Next ==
    \/ Tick
    \/ \E point \in EditPoints : AddPoint(point)
    \/ \E point \in EditPoints : RemovePoint(point)
    \/ \E point \in EditPoints : AgeOfPoint(point)

\* The points handed to neighbors: a square around the origin.
NeighborInputs ==
    {Point(x, y) : x \in (0 - NeighborSpan)..NeighborSpan,
                   y \in (0 - NeighborSpan)..NeighborSpan}

\* A point, not yet handed to neighbors.
InitNeighbors ==
    /\ \E point \in NeighborInputs :
          Constructed(empty, Call("point", point, None))
    /\ Alone

\* neighbors(point).  An overflow of an addition panics or wraps, as the
\* build was made.
Neighbors ==
    /\ panic = "none"
    /\ call.op = "point"
    /\ UNCHANGED <<cells, generation, before, ticks, added, work, twin, iter>>
    /\ \/ /\ neighbors_overflows(call.arg) = TRUE
          /\ panic' = "neighbors"
          /\ UNCHANGED call
       \/ /\ call' = Call("neighbors", call.arg, neighbors(call.arg))
          /\ UNCHANGED panic

\* Grids seeded in the middle of the plane.
Spec == Init /\ [][Next]_vars

\* Grids seeded at the ends of the coordinate range.
SpecEdge == InitEdge /\ [][Next]_vars

\* neighbors applied to single points.
SpecNeighbors == InitNeighbors /\ [][Neighbors]_vars

\* ---------------------------------------------------- tick, step by step

\* tick, up to its first loop: the increment, the empty next_generation,
\* and the order in which the map will yield its keys.
TickBegin ==
    /\ panic = "none"
    /\ work.pc = "idle"
    /\ generation < MaxGen
    /\ Cardinality(DOMAIN cells) <= MaxAlive
    /\ call' = Call("tick", << >>, None)
    /\ before' = Grid(cells, generation)
    /\ UNCHANGED <<cells, ticks, added, twin, iter>>
    /\ \/ /\ generation = U64_MAX
          /\ panic' = "tick"
          /\ UNCHANGED <<generation, work>>
       \/ /\ \E order \in IterOrders(cells) :
                work' = [pc |-> "survival", order |-> order, rest |-> order,
                         candidates |-> << >>, next_generation |-> EmptyMap]
          /\ generation' = next_gen(generation)
          /\ UNCHANGED panic

\* The first loop as it would be if it removed a cell that does not
\* survive from self.cells on the spot.
SurviveStep_in_place ==
    /\ panic = "none"
    /\ work.pc = "survival"
    /\ work.rest # << >>
    /\ UNCHANGED <<generation, call, before, ticks, added, twin, iter, panic>>
    /\ LET cell == Head(work.rest)
       IN  /\ cells' = IF survives(count_neighbors(cells, cell)) THEN cells
                       ELSE MapRemove(cells, cell)
           /\ work' = [work EXCEPT !.rest = Tail(@)]

\* One round of tick's first loop, for the next key of the map.
SurviveStep ==
    /\ panic = "none"
    /\ work.pc = "survival"
    /\ work.rest # << >>
    /\ UNCHANGED <<cells, generation, call, before, ticks, added, twin, iter>>
    /\ LET cell == Head(work.rest)
       IN  \/ /\ neighbors_overflows(cell) = TRUE
              /\ panic' = "tick"
              /\ UNCHANGED work
           \/ /\ work' = [work EXCEPT
                              !.rest = Tail(@),
                              !.next_generation =
                                  survival_pass(cells, generation, <<cell>>, @)]
              /\ UNCHANGED panic

\* The call of dead_candidates at the head of tick's second loop: the map
\* has not changed, so it yields its keys in the order of the first loop.
DeadCandidates ==
    /\ panic = "none"
    /\ work.pc = "survival"
    /\ work.rest = << >>
    /\ work' = [work EXCEPT
                    !.pc = "birth",
                    !.candidates = dead_candidates(cells, work.order)]
    /\ UNCHANGED <<cells, generation, panic, call, before, ticks, added, twin,
                   iter>>

\* One round of tick's second loop, for the next candidate.
BirthStep ==
    /\ panic = "none"
    /\ work.pc = "birth"
    /\ work.candidates # << >>
    /\ UNCHANGED <<cells, generation, call, before, ticks, added, twin, iter>>
    /\ LET cell == Head(work.candidates)
       IN  \/ /\ neighbors_overflows(cell) = TRUE
              /\ panic' = "tick"
              /\ UNCHANGED work
           \/ /\ work' = [work EXCEPT
                              !.candidates = Tail(@),
                              !.next_generation =
                                  birth_pass(cells, generation, <<cell>>, @)]
              /\ UNCHANGED panic

\* The last statement of tick: self.cells = next_generation.
Replace ==
    /\ panic = "none"
    /\ work.pc = "birth"
    /\ work.candidates = << >>
    /\ cells' = work.next_generation
    /\ work' = Idle
    /\ ticks' = ticks + 1
    /\ added' = added_after_tick(cells')
    /\ UNCHANGED <<generation, panic, call, before, twin, iter>>

NextSteps ==
    \/ TickBegin
    \/ SurviveStep
    \/ DeadCandidates
    \/ BirthStep
    \/ Replace

\* Grids seeded in the middle of the plane, ticked step by step.
SpecSteps == Init /\ [][NextSteps]_vars

\* ------------------------------------------------------------ two grids

\* Two grids built with with_points from sequences that hold the same
\* points: the second is given them in the opposite order.
InitTwin ==
    /\ \E S \in SUBSET SeedPoints :
          LET points == Ascending(S)
          IN  /\ Constructed(with_points(points),
                             Call("with_points", points, None))
              /\ twin = with_points(Reverse(points))
    /\ work = Idle
    /\ iter = NoView

\* Grid::tick on the second grid, called when it has been ticked less often
\* than the first.
TickTwin ==
    /\ panic = "none"
    /\ twin.generation < generation
    /\ Cardinality(DOMAIN twin.cells) <= MaxAlive
    /\ UNCHANGED <<cells, generation, call, before, ticks, added, work, iter>>
    /\ \/ /\ twin.generation = U64_MAX
          /\ panic' = "tick"
          /\ UNCHANGED twin
       \/ \E order \in IterOrders(twin.cells) :
            LET candidates == dead_candidates(twin.cells, order)
                gen == next_gen(twin.generation)
            IN  \/ /\ tick_overflows(twin.cells, candidates) = TRUE
                   /\ panic' = "tick"
                   /\ twin' = Grid(twin.cells, gen)
                \/ /\ twin' = Grid(tick_cells(twin.cells, gen, order,
                                              candidates),
                                   gen)
                   /\ UNCHANGED panic

NextTwin ==
    \/ Tick
    \/ TickTwin

\* Two grids seeded with the same points, each ticked on its own.
SpecTwin == InitTwin /\ [][NextTwin]_vars

\* ------------------------------------------------------------- rendering

\* App::new: the width of a point in pixels.
point_width == 10

\* The widths and heights of the window, in pixels.
WindowSizes == {5 * k : k \in 0..MaxWindow}

\* The movements of the mouse on one axis, in half pixels: a pixel to the
\* left or up, half a pixel, a pixel to the right or down.
MouseMoves == {-2, -1, 2}

\* The cast of a window size divided by point_width, an f64, to i64: the
\* fraction is dropped.
points_across(pixels) == i64_div(pixels, point_width)

\* The cast of -d to i64 for a mouse movement d, an f64 given here in half
\* pixels: the fraction is dropped.
adjustment_of(half_pixels) == i64_div(0 - half_pixels, 2)

\* App::new: the view spans the window from the origin, and the grid is
\* Grid::random over the view.  There is no App when random panics.
InitRender ==
    /\ \E window_width, window_height \in WindowSizes :
          LET top_left == Point(0, 0)
              bottom_right == Point(points_across(window_width),
                                    points_across(window_height))
          IN  /\ Random(<<top_left, bottom_right>>)
              /\ iter = IF panic = "none"
                        THEN [pc |-> "idle", top_left |-> top_left,
                              bottom_right |-> bottom_right,
                              mouse_down |-> FALSE, at |-> top_left,
                              yielded |-> << >>, drawn |-> << >>]
                        ELSE NoView
    /\ work = Idle
    /\ twin = NoTwin

\* App::render, up to the loop: View::into_iter.
RenderBegin ==
    /\ panic = "none"
    /\ iter.pc \in {"idle", "done"}
    /\ iter' = [iter EXCEPT !.pc = "iterating", !.at = iter.top_left,
                            !.yielded = << >>, !.drawn = << >>]
    /\ UNCHANGED <<cells, generation, panic, call, before, ticks, added, work,
                   twin>>

\* The point ViewIterator::next computes from self.at.
next_point(it) ==
    IF it.at.x < it.bottom_right.x
    THEN PointAdd(it.at, Point(1, 0))
    ELSE Point(it.top_left.x, wrap_i64(it.at.y + 1))

\* An addition of ViewIterator::next overflows.
next_point_overflows(it) ==
    IF it.at.x < it.bottom_right.x
    THEN PointAddOverflows(it.at, Point(1, 0))
    ELSE i64_overflows(it.at.y + 1)

\* One round of the loop of App::render: ViewIterator::next, age_of_point
\* for the point it yields and, for an alive point, the square drawn at
\* point - base_point with the age of the point.
RenderNext ==
    /\ panic = "none"
    /\ iter.pc = "iterating"
    /\ UNCHANGED <<cells, generation, ticks, added, work, twin>>
    /\ \/ /\ next_point_overflows(iter) = TRUE
          /\ panic' = "render"
          /\ UNCHANGED <<iter, call, before>>
       \/ /\ next_point(iter).y < iter.bottom_right.y
          /\ before' = Grid(cells, generation)
          /\ \/ /\ age_of_point_overflows(cells, generation,
                                           next_point(iter)) = TRUE
                /\ panic' = "age_of_point"
                /\ call' = Call("age_of_point", next_point(iter), None)
                /\ iter' = [iter EXCEPT !.at = next_point(iter),
                                        !.yielded = Append(@, next_point(iter))]
             \/ /\ next_point(iter) \in DOMAIN cells
                /\ PointSubOverflows(next_point(iter), iter.top_left) = TRUE
                /\ panic' = "render"
                /\ call' = Call("age_of_point", next_point(iter),
                                age_of_point(cells, generation,
                                             next_point(iter)))
                /\ iter' = [iter EXCEPT !.at = next_point(iter),
                                        !.yielded = Append(@, next_point(iter))]
             \/ /\ call' = Call("age_of_point", next_point(iter),
                                age_of_point(cells, generation,
                                             next_point(iter)))
                /\ iter' = [iter EXCEPT
                               !.at = next_point(iter),
                               !.yielded = Append(@, next_point(iter)),
                               !.drawn =
                                   IF next_point(iter) \in DOMAIN cells
                                   THEN Append(@,
                                            <<PointSub(next_point(iter),
                                                       iter.top_left),
                                              age_of_point(cells, generation,
                                                  next_point(iter))[1]>>)
                                   ELSE @]
                /\ UNCHANGED panic
       \/ /\ ~(next_point(iter).y < iter.bottom_right.y)
          /\ iter' = [iter EXCEPT !.pc = "done"]
          /\ UNCHANGED <<panic, call, before>>

\* App::update between two render passes, when the time for a tick has
\* come: grid.tick().
Update ==
    /\ iter.pc \in {"idle", "done"}
    /\ Tick

\* A mouse button is pressed or released: mouse_down is set or cleared.
MouseButton(down) ==
    /\ panic = "none"
    /\ iter.pc \in {"idle", "done"}
    /\ iter' = [iter EXCEPT !.mouse_down = down]
    /\ UNCHANGED <<cells, generation, panic, call, before, ticks, added, work,
                   twin>>

\* App::shift: with the mouse button down, both corners of the view move
\* against the movement of the mouse.  An overflow of an addition panics
\* or wraps, as the build was made.
Shift(dx, dy) ==
    /\ panic = "none"
    /\ iter.pc \in {"idle", "done"}
    /\ UNCHANGED <<cells, generation, call, before, ticks, added, work, twin>>
    /\ IF ~iter.mouse_down
       THEN UNCHANGED <<iter, panic>>
       ELSE LET adjustment == Point(adjustment_of(dx), adjustment_of(dy))
                top_left == PointAdd(iter.top_left, adjustment)
                bottom_right == PointAdd(iter.bottom_right, adjustment)
            IN  \/ /\ (PointAddOverflows(iter.top_left, adjustment)
                        \/ PointAddOverflows(iter.bottom_right, adjustment))
                           = TRUE
                      /\ panic' = "shift"
                      /\ UNCHANGED iter
                   \/ /\ top_left.x \in (0 - MaxShift)..MaxShift
                      /\ top_left.y \in (0 - MaxShift)..MaxShift
                      /\ iter' = [iter EXCEPT !.top_left = top_left,
                                              !.bottom_right = bottom_right]
                      /\ UNCHANGED panic

NextRender ==
    \/ RenderBegin
    \/ RenderNext
    \/ Update
    \/ \E down \in BOOLEAN : MouseButton(down)
    \/ \E dx, dy \in MouseMoves : Shift(dx, dy)

\* The display: render passes, with ticks, mouse buttons and drags of
\* the view between them.
SpecRender == InitRender /\ [][NextRender]_vars

\* ------------------------------------------------------------- claims

\* The 8 Moore neighbours of a point in the unbounded plane.
MooreNeighbors(p) ==
    {Point(p.x + dx, p.y + dy) : dx \in -1..1, dy \in -1..1} \ {p}

\* How many Moore neighbours of p are alive in the map cs.
AliveNeighbors(cs, p) == Cardinality(MooreNeighbors(p) \cap DOMAIN cs)

\* The part of the plane the claims look at: the three by three block of
\* the seeds and every point that lies within MaxGen + 1 steps of it.
Probe ==
    {Point(x, y) : x \in (0 - MaxGen - 1)..(2 + MaxGen + 1),
                   y \in (0 - MaxGen - 1)..(2 + MaxGen + 1)}

\* The last call was a tick that returned.
Ticked == call.op = "tick" /\ panic = "none"

\* C1: a cell that is alive before tick is alive after it if and only if 2
\* or 3 of its 8 Moore neighbours were alive before the tick.
C1_SurvivalRule ==
    Ticked =>
        \A p \in DOMAIN before.cells :
            (p \in DOMAIN cells) <=> (AliveNeighbors(before.cells, p) \in {2, 3})

\* A tick after which one cell has survived with its 2 or 3 alive
\* neighbours and another has died with 4.
C1_Witness ==
    /\ Ticked
    /\ \E p \in DOMAIN before.cells : p \in DOMAIN cells
    /\ \E p \in DOMAIN before.cells :
          p \notin DOMAIN cells /\ AliveNeighbors(before.cells, p) = 4

\* C2: a cell that is dead before tick and has exactly 3 alive Moore
\* neighbours is alive after it, stored with the generation after the
\* increment, so that its age is 0.
C2_BirthRule ==
    Ticked =>
        \A p \in Probe \ DOMAIN before.cells :
            AliveNeighbors(before.cells, p) = 3 =>
                /\ p \in DOMAIN cells
                /\ cells[p] = before.generation + 1
                /\ cells[p] = generation
                /\ age_of_point(cells, generation, p) = Some(0)

\* A tick in which a dead cell with 3 alive neighbours was born.
C2_Witness ==
    /\ Ticked
    /\ \E p \in Probe \ DOMAIN before.cells :
          AliveNeighbors(before.cells, p) = 3 /\ p \in DOMAIN cells

\* C3: a cell alive before and after a tick keeps its birth generation.
C3_SurvivalKeepsBirth ==
    Ticked =>
        \A p \in (DOMAIN before.cells) \cap (DOMAIN cells) :
            cells[p] = before.cells[p]

\* After the second tick, a cell born in generation 0 that is still alive,
\* beside a cell born later.
C3_Witness ==
    /\ Ticked
    /\ generation = 2
    /\ \E p \in (DOMAIN before.cells) \cap (DOMAIN cells) : cells[p] = 0
    /\ \E p \in DOMAIN cells : cells[p] > 0

\* C4: a constructed grid is at generation 0, each tick adds exactly 1 to
\* the generation, and after N ticks the generation is N.
C4_GenerationCountsTicks ==
    /\ call.op \in {"empty", "with_points", "random"} => generation = 0
    /\ Ticked => generation = before.generation + 1
    /\ panic = "none" => generation = ticks

\* Two ticks have been made, on a grid that has cells.
C4_Witness ==
    Ticked /\ ticks = 2 /\ generation = 2 /\ cells # EmptyMap

\* C5: the birth generation of every alive cell is at most the current
\* generation, so the subtraction of age_of_point does not underflow.
C5_BirthNotAfterNow ==
    \A p \in DOMAIN cells :
        /\ cells[p] <= generation
        /\ ~age_of_point_overflows(cells, generation, p)

\* After ticks, a cell just added beside a cell born earlier.
C5_Witness ==
    /\ call.op = "add_point"
    /\ generation > 0
    /\ call.arg \notin DOMAIN before.cells
    /\ cells[call.arg] = generation
    /\ \E p \in DOMAIN cells : cells[p] < generation

\* C6: tick never fails, whatever the coordinates of the alive cells, and
\* on the empty grid it leaves the cells empty and advances the generation.
C6_TickNeverFails ==
    /\ panic # "tick"
    /\ (call.op = "tick" /\ before.cells = EmptyMap) =>
          cells = EmptyMap /\ generation = before.generation + 1

\* C7: add_point of an alive point leaves its birth generation, and so its
\* age, as it was; add_point of a dead point makes it alive, born in the
\* current generation.
C7_AddPoint ==
    call.op = "add_point" =>
        LET p == call.arg
        IN  /\ p \in DOMAIN cells
            /\ p \in DOMAIN before.cells =>
                  /\ cells[p] = before.cells[p]
                  /\ age_of_point(cells, generation, p) =
                        age_of_point(before.cells, before.generation, p)
            /\ p \notin DOMAIN before.cells => cells[p] = before.generation

\* add_point of a point that has been alive since an earlier generation.
C7_Witness ==
    /\ call.op = "add_point"
    /\ call.arg \in DOMAIN before.cells
    /\ before.cells[call.arg] < generation

\* C8: after remove_point the point is dead and has no age, and removing a
\* dead point leaves the grid as it was.
C8_RemovePoint ==
    call.op = "remove_point" =>
        LET p == call.arg
        IN  /\ p \notin DOMAIN cells
            /\ age_of_point(cells, generation, p) = None
            /\ p \notin DOMAIN before.cells =>
                  cells = before.cells /\ generation = before.generation

\* remove_point of an alive point of a grid that has other alive cells.
C8_Witness ==
    /\ call.op = "remove_point"
    /\ call.arg \in DOMAIN before.cells
    /\ cells # EmptyMap

\* C9: age_of_point returns the current generation minus the birth
\* generation of an alive point and None for a dead one, and changes
\* neither the cells nor the generation.
C9_AgeOfPoint ==
    /\ panic # "age_of_point"
    /\ call.op = "age_of_point" =>
          LET p == call.arg
          IN  /\ p \in DOMAIN cells => call.ret = Some(generation - cells[p])
              /\ p \notin DOMAIN cells => call.ret = None
              /\ cells = before.cells
              /\ generation = before.generation

\* age_of_point of a cell that is older than 0.
C9_Witness ==
    /\ call.op = "age_of_point"
    /\ call.arg \in DOMAIN cells
    /\ call.ret # None
    /\ call.ret[1] > 0

\* C10: a dead point made alive by add_point has age 0 right after the
\* call and age k once it has lived through k ticks.
C10_AgeCountsTicks ==
    \A p \in DOMAIN added :
        age_of_point(cells, generation, p) = Some(added[p])

\* A point added after the first tick that has lived through a tick since.
C10_Witness ==
    \E p \in DOMAIN added :
        added[p] > 0 /\ p \in DOMAIN cells /\ cells[p] > 0

\* A sequence without its repetitions: the first occurrence of each
\* element, in order.
Deduplicated(seq) ==
    LET first == {i \in DOMAIN seq : \A k \in 1..(i - 1) : seq[k] # seq[i]}
        F[i \in 0..Len(seq)] ==
            IF i = 0 THEN << >>
            ELSE IF i \in first THEN Append(F[i - 1], seq[i]) ELSE F[i - 1]
    IN  F[Len(seq)]

\* C12: with_points over a sequence of points, with or without
\* repetitions, gives a grid at generation 0 whose alive cells are the
\* distinct points of the sequence, each stamped 0; empty gives a grid at
\* generation 0 without cells.
C12_WithPoints ==
    /\ call.op = "with_points" =>
          /\ generation = 0
          /\ DOMAIN cells = Elements(call.arg)
          /\ \A p \in DOMAIN cells : cells[p] = 0
    /\ call.op = "empty" =>
          /\ generation = 0
          /\ DOMAIN cells = {}

\* with_points over a sequence that gives each of its 3 or more points
\* twice.
C12_Witness ==
    /\ call.op = "with_points"
    /\ Cardinality(DOMAIN cells) >= 3
    /\ Len(call.arg) = 2 * Cardinality(DOMAIN cells)

\* C13: whatever points are drawn, random gives a grid at generation 0
\* whose alive cells lie in the rectangle top_left <= p < bottom_right, are
\* stamped 0, and number at most 0.8 times the area of the rectangle.
C13_Random ==
    (call.op = "random" /\ panic = "none") =>
        LET top_left == call.arg[1]
            bottom_right == call.arg[2]
            area == (bottom_right.x - top_left.x)
                        * (bottom_right.y - top_left.y)
        IN  /\ generation = 0
            /\ \A p \in DOMAIN cells :
                  /\ top_left.x <= p.x /\ p.x < bottom_right.x
                  /\ top_left.y <= p.y /\ p.y < bottom_right.y
                  /\ cells[p] = 0
            /\ 10 * Cardinality(DOMAIN cells) <= 8 * area

\* random over a rectangle of area 4 whose 3 draws were all different.
C13_Witness ==
    /\ call.op = "random"
    /\ panic = "none"
    /\ call.arg = <<Point(0, 0), Point(2, 2)>>
    /\ Cardinality(DOMAIN cells) = 3

\* C14: neighbors(p) is the 8 points p + (dx, dy) in the order (-1,+1),
\* (0,+1), (+1,+1), (-1,0), (+1,0), (-1,-1), (0,-1), (+1,-1): each once,
\* never p itself.
C14_Neighbors ==
    call.op = "neighbors" =>
        LET p == call.arg
            adj == call.ret
        IN  /\ adj = << Point(p.x - 1, p.y + 1), Point(p.x, p.y + 1),
                        Point(p.x + 1, p.y + 1), Point(p.x - 1, p.y),
                        Point(p.x + 1, p.y), Point(p.x - 1, p.y - 1),
                        Point(p.x, p.y - 1), Point(p.x + 1, p.y - 1) >>
            /\ Len(adj) = 8
            /\ \A i, k \in 1..8 : i # k => adj[i] # adj[k]
            /\ \A i \in 1..8 : adj[i] # p
            /\ Elements(adj) = MooreNeighbors(p)

\* neighbors has returned for a point with a negative coordinate.
C14_Witness ==
    /\ call.op = "neighbors"
    /\ call.arg.x < 0
    /\ call.arg.y > 0
    /\ Len(call.ret) = 8

\* C16: the second loop of tick gives the same map over dead_candidates'
\* list, in which a candidate is repeated, as over the list without its
\* repetitions.
C16_RepetitionsHarmless ==
    Ticked =>
        \A order \in IterOrders(before.cells) :
            cells = birth_pass(before.cells, generation,
                        Deduplicated(dead_candidates(before.cells, order)),
                        survival_pass(before.cells, generation, order,
                                      EmptyMap))

\* A tick in which a cell was born, so that a candidate was listed three
\* times.
C16_Witness ==
    /\ Ticked
    /\ \E order \in IterOrders(before.cells) :
          LET candidates == dead_candidates(before.cells, order)
          IN  /\ Len(candidates) > Cardinality(Elements(candidates))
              /\ \E p \in Elements(candidates) : p \in DOMAIN cells

\* C17: a cell dead before a tick and alive after it had exactly 3 alive
\* Moore neighbours and was a neighbour of an alive cell; a dead cell with
\* another count stays dead; the alive cells after a tick are among the
\* alive cells before it and their Moore neighbours.
C17_NoSpuriousBirths ==
    Ticked =>
        LET alive == DOMAIN before.cells
            around == UNION {MooreNeighbors(q) : q \in alive}
        IN  /\ \A p \in (DOMAIN cells) \ alive :
                  /\ AliveNeighbors(before.cells, p) = 3
                  /\ p \in around
            /\ \A p \in Probe \ alive :
                  AliveNeighbors(before.cells, p) # 3 => p \notin DOMAIN cells
            /\ DOMAIN cells \subseteq alive \cup around

\* A tick with a birth in which a dead cell with 4 alive neighbours and a
\* dead cell with 2 stayed dead.
C17_Witness ==
    /\ Ticked
    /\ \E p \in (DOMAIN cells) \ DOMAIN before.cells : TRUE
    /\ \E p \in Probe \ DOMAIN before.cells :
          AliveNeighbors(before.cells, p) = 4 /\ p \notin DOMAIN cells
    /\ \E p \in Probe \ DOMAIN before.cells :
          AliveNeighbors(before.cells, p) = 2 /\ p \notin DOMAIN cells

\* C18: add_point(p) and remove_point(p) leave the generation as it was,
\* and every point other than p alive or dead as it was, with the birth
\* generation it had.
C18_EditFrame ==
    call.op \in {"add_point", "remove_point"} =>
        /\ generation = before.generation
        /\ \A q \in ((DOMAIN cells) \cup (DOMAIN before.cells)) \ {call.arg} :
              /\ q \in DOMAIN cells
              /\ q \in DOMAIN before.cells
              /\ cells[q] = before.cells[q]

\* remove_point has removed an alive point after a tick, and two other
\* cells with different birth generations are alive.
C18_Witness ==
    /\ call.op = "remove_point"
    /\ call.arg \in DOMAIN before.cells
    /\ generation > 0
    /\ \E q, r \in (DOMAIN cells) \ {call.arg} : cells[q] # cells[r]

\* C11: two grids built from the same points and ticked the same number
\* of times have the same alive cells, the same birth generations and the
\* same generation, in whatever orders their maps yielded their keys.
C11_Determinism ==
    (panic = "none" /\ ticks = twin.generation) =>
        /\ twin.cells = cells
        /\ twin.generation = generation

\* Both grids have been ticked twice, the grids had 3 or more cells
\* before a tick, and after it a cell born in the first tick and a cell
\* of the seed are alive.
C11_Witness ==
    /\ panic = "none"
    /\ generation = 2
    /\ twin.generation = 2
    /\ Cardinality(DOMAIN before.cells) >= 3
    /\ \E p, q \in DOMAIN twin.cells :
          twin.cells[p] = 0 /\ twin.cells[q] = 1

\* C15: while a tick is in its survival loop or its birth loop the map of
\* the grid is the map before the tick; it changes in the last step only,
\* to the map the rules of Life give for the map before the tick.
C15_SnapshotUntilReplaced ==
    /\ (work.pc \in {"survival", "birth"} /\ panic = "none") =>
          /\ cells = before.cells
          /\ generation = before.generation + 1
    /\ (work.pc = "idle" /\ Ticked) =>
          LET alive == DOMAIN before.cells
              around == UNION {MooreNeighbors(q) : q \in alive}
          IN  DOMAIN cells =
                  {p \in alive : AliveNeighbors(before.cells, p) \in {2, 3}}
                  \cup {p \in around \ alive :
                            AliveNeighbors(before.cells, p) = 3}

\* A tick in its birth loop with a cell in next_generation, on a grid in
\* which a cell will not survive.
C15_Witness ==
    /\ work.pc = "birth"
    /\ work.candidates # << >>
    /\ DOMAIN work.next_generation # {}
    /\ \E p \in DOMAIN cells : p \notin DOMAIN work.next_generation
    /\ \E p \in DOMAIN work.next_generation : p \notin DOMAIN cells

\* C19: a render pass ends, and when it has ended the view iterator has
\* yielded every point of the rectangle top_left <= p < bottom_right once
\* and no other point, age_of_point having been called for each.
C19_ViewCoversRectangle ==
    /\ iter.pc \in {"iterating", "done"} =>
          /\ Elements(iter.yielded)
                \subseteq RangePoints(iter.top_left, iter.bottom_right)
          /\ Cardinality(Elements(iter.yielded)) = Len(iter.yielded)
    /\ iter.pc = "done" =>
          Elements(iter.yielded)
              = RangePoints(iter.top_left, iter.bottom_right)

\* C20: the candidates of the birth loop hold no cell that is alive
\* before the tick, so the keys the two loops insert are disjoint and a
\* survivor keeps its birth generation through the birth loop.
C20_DisjointInsertions ==
    (work.pc = "birth" /\ panic = "none") =>
        /\ Elements(work.candidates) \cap DOMAIN cells = {}
        /\ \A p \in DOMAIN work.next_generation :
              IF p \in DOMAIN cells
              THEN work.next_generation[p] = cells[p]
              ELSE work.next_generation[p] = generation

\* The birth loop of a second tick has ended with a survivor of the seed
\* and a newborn cell in next_generation.
C20_Witness ==
    /\ work.pc = "birth"
    /\ work.candidates = << >>
    /\ generation = 2
    /\ \E p, q \in DOMAIN work.next_generation :
          /\ p \in DOMAIN cells
          /\ work.next_generation[p] = 0
          /\ q \notin DOMAIN cells

====
